---- MODULE Spec2Model ----
(***************************************************************************)
(* Model of package i2c (i2c.go): a handle on /dev/i2c-N, the byte-stream  *)
(* read/write on its descriptor, and the SMBus-style register operations   *)
(* built on them.  A write or a read on the descriptor is one atomic step; *)
(* a register read is two steps (select write, then read).                 *)
(***************************************************************************)
EXTENDS Integers, Sequences, FiniteSets, TLC

\* ---------------------------------------------------------------- bounds
MaxCtx == 2       \* execution contexts that may share the handles
MaxOpens == 1     \* calls of NewI2C that reach os.OpenFile successfully
MaxN == 2         \* largest n passed to ReadRegBytes

\* ---------------------------------------------------------------- inputs
ByteSamples == {0, 1, 18, 52, 128, 255}          \* 0x00 0x01 0x12 0x34 0x80 0xFF
RegSamples == {16, 32}                           \* 0x10 0x20
U16Samples == {1, 255, 4660, 32769, 43981}       \* 0x0001 0x00FF 0x1234 0x8001 0xABCD
S16Samples == {1, 255, 4660, -32767, -21555}     \* the same bit patterns as int16

Nil == "nil"
ErrClosed == "ErrClosed"
EOF == "EOF"
IOErrs == {"EIO", "EREMOTEIO"}

ReadOps == {"ReadRegBytes", "ReadRegU8", "ReadRegU16BE", "ReadRegU16LE",
            "ReadRegS16BE", "ReadRegS16LE"}
WriteOps == {"WriteRegU8", "WriteRegU16BE", "WriteRegU16LE",
             "WriteRegS16BE", "WriteRegS16LE"}

\* ------------------------------------------------- fixed-width arithmetic
U16(x) == x % 65536
S16(x) == IF x % 65536 >= 32768 THEN (x % 65536) - 65536 ELSE x % 65536
U8(x) == x % 256
\* a*b in uint16, by parts so that no intermediate leaves 32 bits
MulU16(a, b) == U16(a * (b % 256) + U16(a * (b \div 256)) * 256)

Zeros(n) == [i \in 1..n |-> 0]

\* ------------------------------------------------------- pure expressions
\* []byte{reg}
RegSelectOff(reg) == <<U8(reg + 1)>>
RegSelect(reg) == <<reg>>

\* make([]byte, n)
ReadLenOff(n) == n + 1
ReadLen(n) == n

\* buf := []byte{reg, value}
U8PayloadSwapped(reg, value) == <<value, reg>>
U8Payload(reg, value) == <<reg, value>>

\* buf := []byte{reg, byte((value & 0xFF00) >> 8), byte(value & 0xFF)}
U16BEPayload(reg, value) == <<reg, (value \div 256) % 256, value % 256>>

\* buf := []byte{reg, byte((uint16(value) & 0xFF00) >> 8), byte(value & 0xFF)}
S16BEPayload(reg, value) == <<reg, (U16(value) \div 256) % 256, value % 256>>

\* w := uint16(buf[0])<<8 + uint16(buf[1])
DecodeU16BELow(buf) == buf[2]
DecodeU16BE(buf) == U16(U16(buf[1] * 256) + buf[2])

\* w := int16(buf[0])<<8 + int16(buf[1])
DecodeS16BE(buf) == S16(S16(buf[1] * 256) + buf[2])

\* w = (w&0xFF)<<8 + w>>8        (w uint16: logical shift)
SwapReadU16(w) == U16(U16((w % 256) * 256) + (w \div 256))

\* w = (w&0xFF)<<8 + w>>8        (w int16: arithmetic shift)
SwapReadS16(w) == S16(S16((w % 256) * 256) + (w \div 256))

\* w := (value*0xFF00)>>8 + value<<8
SwapWriteU16(value) == U16((MulU16(value, 65280) \div 256) + U16(value * 256))

\* w := int16((uint16(value)*0xFF00)>>8) + value<<8
SwapWriteS16(value) == S16(S16(MulU16(U16(value), 65280) \div 256) + S16(value * 256))

\* if err != nil { return ..., err }
FailedNever(err) == FALSE
Failed(err) == err # Nil

\* ------------------------------------------------------------------ state
VARIABLES
    ctxs,          \* execution contexts that use the handles
    nextFd,        \* next descriptor os.OpenFile will hand out
    openFds,       \* descriptors currently open in the process
    handles,       \* descriptors wrapped in a *I2C that NewI2C returned (v.rc)
    closedFiles,   \* handles whose os.File has been closed
    releases,      \* per descriptor: how often it was released (close syscall)
    frame,         \* per context: the register call it is inside of
    selected,      \* per descriptor: register byte of the last write that reached the peripheral
    last           \* the call that returned most recently (none while one has begun since)

vars == <<ctxs, nextFd, openFds, handles, closedFiles, releases, frame, selected, last>>

Fds == 1..(MaxOpens + 1)

IdleFrame == [pc |-> "idle", op |-> "none", h |-> 0, reg |-> 0, n |-> 0, io |-> <<>>,
              werr |-> Nil]

NoCall == [ctx |-> 0, op |-> "none", h |-> 0, reg |-> 0, val |-> 0, n |-> 0,
           io |-> <<>>, werr |-> Nil, rerr |-> Nil, got |-> 0, buf |-> <<>>, err |-> Nil,
           ret |-> 0, retbuf |-> <<>>, sel |-> <<>>, wasClosed |-> FALSE]

Init ==
    /\ ctxs = {1}
    /\ nextFd = 1
    /\ openFds = {}
    /\ handles = {}
    /\ closedFiles = {}
    /\ releases = [f \in Fds |-> 0]
    /\ frame = [c \in 1..MaxCtx |-> IdleFrame]
    /\ selected = [f \in Fds |-> <<>>]
    /\ last = NoCall

Idle(c) == c \in ctxs /\ frame[c].pc = "idle"

\* handles a caller may still use (use after Close is excluded by the contract)
Usable == handles \ closedFiles

\* ------------------------------------------------------- descriptor I/O
\* v.rc.Write(buf): nil or an I/O error; a closed os.File fails with ErrClosed
WriteOutcomes(h) == IF h \in closedFiles THEN {ErrClosed} ELSE {Nil} \cup IOErrs

Pad(data, len) == [i \in 1..len |-> IF i <= Len(data) THEN data[i] ELSE 0]

\* v.rc.Read(buf): (n, err) and the buffer afterwards.  An error leaves the
\* zeroed buffer; a read of 0 bytes into a non-empty buffer is io.EOF; fewer
\* bytes than len(buf) may arrive without an error.
ReadOutcomes(h, len) ==
    IF h \in closedFiles
    THEN {[n |-> 0, err |-> ErrClosed, data |-> Zeros(len)]}
    ELSE {[n |-> 0, err |-> e, data |-> Zeros(len)] : e \in IOErrs}
         \cup (IF len = 0
               THEN {[n |-> 0, err |-> Nil, data |-> <<>>]}
               ELSE {[n |-> 0, err |-> EOF, data |-> Zeros(len)]})
         \cup UNION {{[n |-> k, err |-> Nil, data |-> Pad(d, len)] :
                        d \in [1..k -> ByteSamples]} : k \in 1..len}

\* a call on the descriptor, as a test double for the byte stream records it
WriteCall(buf) == [kind |-> "write", data |-> buf]
ReadCall(len) == [kind |-> "read", data |-> <<len>>]

\* what a write does to the peripheral's register pointer: a write that reaches
\* it selects the register named by its first byte
AfterWrite(h, buf, e) ==
    IF e = Nil /\ Len(buf) > 0 THEN [selected EXCEPT ![h] = <<buf[1]>>] ELSE selected

\* ------------------------------------------------------------ construction
\* NewI2C: os.OpenFile fails, or succeeds and the I2C_SLAVE ioctl fails (the
\* opened file is not closed on that path), or both succeed.
NewI2C(c) ==
    /\ Idle(c)
    /\ UNCHANGED <<ctxs, closedFiles, releases, frame, selected>>
    /\ \/ \E e \in IOErrs :                       \* os.OpenFile: err != nil
            /\ last' = [NoCall EXCEPT !.ctx = c, !.op = "NewI2C", !.err = e]
            /\ UNCHANGED <<nextFd, openFds, handles>>
       \/ /\ nextFd <= MaxOpens
          /\ nextFd' = nextFd + 1
          /\ openFds' = openFds \cup {nextFd}
          /\ \/ \E e \in IOErrs :                 \* ioctl: err != nil
                  /\ last' = [NoCall EXCEPT !.ctx = c, !.op = "NewI2C", !.err = e]
                  /\ UNCHANGED handles
             \/ /\ handles' = handles \cup {nextFd}
                /\ last' = [NoCall EXCEPT !.ctx = c, !.op = "NewI2C", !.h = nextFd]

\* ------------------------------------------------------------------- Close
\* v.rc.Close(): the first call releases the descriptor (and may report the
\* close syscall's error); a call on a closed os.File returns ErrClosed.
CloseReleasesAlways(h) == TRUE
CloseReleases(h) == h \notin closedFiles

Close(c) ==
    /\ Idle(c)
    /\ \E h \in handles :
        /\ UNCHANGED <<ctxs, nextFd, handles, frame, selected>>
        /\ IF CloseReleases(h)
           THEN /\ closedFiles' = closedFiles \cup {h}
                /\ openFds' = openFds \ {h}
                /\ releases' = [releases EXCEPT ![h] = @ + 1]
                /\ \E e \in {Nil} \cup IOErrs :
                     last' = [NoCall EXCEPT !.ctx = c, !.op = "Close", !.h = h,
                                            !.err = e,
                                            !.wasClosed = (h \in closedFiles)]
           ELSE /\ UNCHANGED <<closedFiles, openFds, releases>>
                /\ last' = [NoCall EXCEPT !.ctx = c, !.op = "Close", !.h = h,
                                          !.err = ErrClosed, !.wasClosed = TRUE]

\* ------------------------------------------------------- register writes
\* _, err := v.WriteBytes(buf); if err != nil { return err }; return nil
WriteStep(c, op, h, reg, value, buf) ==
    /\ Idle(c)
    /\ h \in Usable
    /\ \E e \in WriteOutcomes(h) :
        /\ selected' = AfterWrite(h, buf, e)
        /\ last' = [NoCall EXCEPT !.ctx = c, !.op = op, !.h = h, !.reg = reg,
                                  !.val = value,
                                  !.io = <<WriteCall(buf)>>, !.werr = e,
                                  !.err = IF Failed(e) THEN e ELSE Nil]
    /\ UNCHANGED <<ctxs, nextFd, openFds, handles, closedFiles, releases, frame>>

WriteRegU8(c) ==
    \E h \in Usable, reg \in RegSamples, value \in ByteSamples :
        WriteStep(c, "WriteRegU8", h, reg, value, U8Payload(reg, value))

WriteRegU16BE(c) ==
    \E h \in Usable, reg \in RegSamples, value \in U16Samples :
        WriteStep(c, "WriteRegU16BE", h, reg, value, U16BEPayload(reg, value))

WriteRegU16LE(c) ==
    \E h \in Usable, reg \in RegSamples, value \in U16Samples :
        WriteStep(c, "WriteRegU16LE", h, reg, value,
                  U16BEPayload(reg, SwapWriteU16(value)))

WriteRegS16BE(c) ==
    \E h \in Usable, reg \in RegSamples, value \in S16Samples :
        WriteStep(c, "WriteRegS16BE", h, reg, value, S16BEPayload(reg, value))

WriteRegS16LE(c) ==
    \E h \in Usable, reg \in RegSamples, value \in S16Samples :
        WriteStep(c, "WriteRegS16LE", h, reg, value,
                  S16BEPayload(reg, SwapWriteS16(value)))

\* -------------------------------------------------------- register reads
\* _, err := v.WriteBytes([]byte{reg}); if err != nil { return 0, err }
SelectStep(c, op, h, reg, n) ==
    /\ Idle(c)
    /\ h \in Usable
    /\ \E e \in WriteOutcomes(h) :
        /\ selected' = AfterWrite(h, RegSelect(reg), e)
        /\ IF Failed(e)
           THEN /\ last' = [NoCall EXCEPT !.ctx = c, !.op = op, !.h = h,
                                          !.reg = reg, !.n = n,
                                          !.io = <<WriteCall(RegSelect(reg))>>,
                                          !.werr = e, !.err = e]
                /\ UNCHANGED frame
           ELSE /\ frame' = [frame EXCEPT ![c] =
                               [pc |-> "selected", op |-> op, h |-> h, reg |-> reg,
                                n |-> n, io |-> <<WriteCall(RegSelect(reg))>>,
                                werr |-> e]]
                /\ last' = NoCall
    /\ UNCHANGED <<ctxs, nextFd, openFds, handles, closedFiles, releases>>

\* what each reader makes of the filled buffer
ReadRegU8Value(buf) == buf[1]
ReadRegU16BEValue(buf) == DecodeU16BE(buf)
ReadRegU16LEValue(buf) == SwapReadU16(DecodeU16BE(buf))
ReadRegS16BEValue(buf) == DecodeS16BE(buf)
ReadRegS16LEValue(buf) == SwapReadS16(DecodeS16BE(buf))

Value(op, buf, cnt) ==
    CASE op = "ReadRegBytes" -> cnt
      [] op = "ReadRegU8"    -> ReadRegU8Value(buf)
      [] op = "ReadRegU16BE" -> ReadRegU16BEValue(buf)
      [] op = "ReadRegU16LE" -> ReadRegU16LEValue(buf)
      [] op = "ReadRegS16BE" -> ReadRegS16BEValue(buf)
      [] op = "ReadRegS16LE" -> ReadRegS16LEValue(buf)

\* buf := make([]byte, n); c, err := v.ReadBytes(buf);
\* if err != nil { return 0, err }; return <value of buf>, nil
FetchStep(c, op) ==
    /\ c \in ctxs
    /\ frame[c].pc = "selected"
    /\ frame[c].op = op
    /\ LET f == frame[c]
           len == ReadLen(f.n)
       IN \E o \in ReadOutcomes(f.h, len) :
            /\ last' = [NoCall EXCEPT
                          !.ctx = c, !.op = op, !.h = f.h, !.reg = f.reg, !.n = f.n,
                          !.io = Append(f.io, ReadCall(len)),
                          !.werr = f.werr, !.rerr = o.err,
                          !.got = o.n, !.buf = o.data,
                          !.sel = selected[f.h],
                          !.err = IF Failed(o.err) THEN o.err ELSE Nil,
                          !.ret = IF Failed(o.err) THEN 0 ELSE Value(op, o.data, o.n),
                          !.retbuf = IF ~Failed(o.err) /\ op = "ReadRegBytes"
                                     THEN o.data ELSE <<>>]
    /\ frame' = [frame EXCEPT ![c] = IdleFrame]
    /\ UNCHANGED <<ctxs, nextFd, openFds, handles, closedFiles, releases, selected>>

ReadRegBytes(c) ==
    \/ \E h \in Usable, reg \in RegSamples, n \in 0..MaxN :
         SelectStep(c, "ReadRegBytes", h, reg, n)
    \/ FetchStep(c, "ReadRegBytes")

ReadRegU8(c) ==
    \/ \E h \in Usable, reg \in RegSamples : SelectStep(c, "ReadRegU8", h, reg, 1)
    \/ FetchStep(c, "ReadRegU8")

ReadRegU16BE(c) ==
    \/ \E h \in Usable, reg \in RegSamples : SelectStep(c, "ReadRegU16BE", h, reg, 2)
    \/ FetchStep(c, "ReadRegU16BE")

ReadRegU16LE(c) ==
    \/ \E h \in Usable, reg \in RegSamples : SelectStep(c, "ReadRegU16LE", h, reg, 2)
    \/ FetchStep(c, "ReadRegU16LE")

ReadRegS16BE(c) ==
    \/ \E h \in Usable, reg \in RegSamples : SelectStep(c, "ReadRegS16BE", h, reg, 2)
    \/ FetchStep(c, "ReadRegS16BE")

ReadRegS16LE(c) ==
    \/ \E h \in Usable, reg \in RegSamples : SelectStep(c, "ReadRegS16LE", h, reg, 2)
    \/ FetchStep(c, "ReadRegS16LE")

Next ==
    \E c \in ctxs :
        \/ NewI2C(c)
        \/ Close(c)
        \/ WriteRegU8(c)
        \/ WriteRegU16BE(c)
        \/ WriteRegU16LE(c)
        \/ WriteRegS16BE(c)
        \/ WriteRegS16LE(c)
        \/ ReadRegBytes(c)
        \/ ReadRegU8(c)
        \/ ReadRegU16BE(c)
        \/ ReadRegU16LE(c)
        \/ ReadRegS16BE(c)
        \/ ReadRegS16LE(c)

Spec == Init /\ [][Next]_vars

\* The handle shared by several execution contexts without synchronization
\* (the package takes no lock): the byte-wide register operations.
InitShared ==
    /\ ctxs \in {1..k : k \in 1..MaxCtx}
    /\ nextFd = 1
    /\ openFds = {}
    /\ handles = {}
    /\ closedFiles = {}
    /\ releases = [f \in Fds |-> 0]
    /\ frame = [c \in 1..MaxCtx |-> IdleFrame]
    /\ selected = [f \in Fds |-> <<>>]
    /\ last = NoCall

NextShared ==
    \E c \in ctxs :
        \/ NewI2C(c)
        \/ Close(c)
        \/ WriteRegU8(c)
        \/ ReadRegU8(c)

SpecShared == InitShared /\ [][NextShared]_vars

\* ================================================================= claims
RegOps == ReadOps \cup WriteOps

Returned(op) == last.op = op
Succeeded(op) == last.op = op /\ last.err = Nil

\* number of calls of one kind a returned operation issued
Issued(kind) == Cardinality({i \in 1..Len(last.io) : last.io[i].kind = kind})

\* the two wire bytes of a read that filled a 2-byte buffer
FullPair == last.err = Nil /\ Len(last.buf) = 2 /\ last.got = 2
B0 == last.buf[1]
B1 == last.buf[2]

\* C1: a ReadRegBytes(reg, n) that returns without error has issued exactly
\* one write, of the single byte reg, then exactly one read request for n
\* bytes, and nothing else; the read was served from register reg; it returns
\* the buffer the read filled and the count the read reported.
C1_ReadRegBytesTraffic ==
    Succeeded("ReadRegBytes") =>
        /\ last.io = <<WriteCall(<<last.reg>>), ReadCall(last.n)>>
        /\ last.sel = <<last.reg>>
        /\ Len(last.buf) = last.n
        /\ last.retbuf = last.buf
        /\ last.ret = last.got

C1_Witness ==
    /\ Succeeded("ReadRegBytes")
    /\ last.reg = 32 /\ last.n = 2 /\ last.got = 2
    /\ last.retbuf = <<18, 52>>

\* C2: WriteRegU8(reg, value) issues exactly one write, of [reg, value];
\* WriteRegU16BE(reg, v) issues exactly one write, of [reg, v div 256,
\* v mod 256]; neither issues a read.
C2_BigEndianWrites ==
    /\ Returned("WriteRegU8") =>
          last.io = <<WriteCall(<<last.reg, last.val>>)>>
    /\ Returned("WriteRegU16BE") =>
          last.io = <<WriteCall(<<last.reg, last.val \div 256, last.val % 256>>)>>

C2_Witness ==
    /\ Succeeded("WriteRegU16BE")
    /\ last.reg = 32 /\ last.val = 4660
    /\ last.io = <<WriteCall(<<32, 18, 52>>)>>

\* C3: on wire bytes [b0, b1] of a successful 2-byte read, ReadRegU16BE
\* returns b0*256 + b1, ReadRegU16LE returns b1*256 + b0 and ReadRegS16BE
\* returns b0*256 + b1 read as a 16-bit two's-complement number.
C3_WordReads ==
    FullPair =>
        /\ Returned("ReadRegU16BE") => last.ret = B0 * 256 + B1
        /\ Returned("ReadRegU16LE") => last.ret = B1 * 256 + B0
        /\ Returned("ReadRegS16BE") =>
              last.ret = IF B0 >= 128 THEN B0 * 256 + B1 - 65536 ELSE B0 * 256 + B1

C3_Witness ==
    /\ FullPair
    /\ Returned("ReadRegS16BE")
    /\ last.buf = <<255, 255>>
    /\ last.ret = -1

\* C4: WriteRegU16LE(reg, v) and WriteRegS16LE(reg, v) issue a single write
\* of [reg, low byte of v, high byte of v], v taken as its 16-bit pattern.
C4_LittleEndianWrites ==
    (Returned("WriteRegU16LE") \/ Returned("WriteRegS16LE")) =>
        last.io = <<WriteCall(<<last.reg, U16(last.val) % 256,
                                U16(last.val) \div 256>>)>>

\* C5: on wire bytes [b0, b1] of a successful 2-byte read, ReadRegS16LE
\* returns b1*256 + b0 read as a 16-bit two's-complement number, also when
\* b0 >= 0x80.
C5_SignedLittleEndianRead ==
    (FullPair /\ Returned("ReadRegS16LE")) =>
        last.ret = IF B1 >= 128 THEN B1 * 256 + B0 - 65536 ELSE B1 * 256 + B0

\* C6: a register operation issues at most one write and at most one read
\* and reports the first error of its steps: a failed write is returned and
\* no read follows it, a failed read is returned, and a call whose steps all
\* succeeded reports success.
C6_FirstErrorNoRetry ==
    last.op \in RegOps =>
        /\ Issued("write") = 1
        /\ Issued("read") <= 1
        /\ last.op \in WriteOps => Issued("read") = 0
        /\ last.werr # Nil => (last.err = last.werr /\ Issued("read") = 0)
        /\ (last.werr = Nil /\ last.rerr # Nil) => last.err = last.rerr
        /\ (last.werr = Nil /\ last.rerr = Nil) => last.err = Nil
        /\ (last.op \in ReadOps /\ last.werr = Nil) => Issued("read") = 1

C6_Witness ==
    /\ last.op \in ReadOps
    /\ last.werr \in IOErrs
    /\ last.err = last.werr
    /\ last.io = <<WriteCall(<<last.reg>>)>>

\* C7: a descriptor is released at most once; once a handle is closed its
\* descriptor is released, and a further Close returns an error, releases
\* nothing and leaves the handle and the descriptors as they were.
C7_Released ==
    /\ \A h \in Fds : releases[h] <= 1
    /\ \A h \in closedFiles : releases[h] = 1 /\ h \notin openFds
    /\ (Returned("Close") /\ last.wasClosed) => last.err = ErrClosed

C7_ClosedStays ==
    \A h \in closedFiles :
        /\ h \in closedFiles'
        /\ releases'[h] = releases[h]
        /\ h \notin openFds'
        /\ (last'.op = "Close" /\ last'.h = h) =>
              /\ last'.wasClosed
              /\ <<nextFd', openFds', handles', closedFiles', releases', selected'>>
                   = <<nextFd, openFds, handles, closedFiles, releases, selected>>

C7_CloseOnce == []C7_Released /\ [][C7_ClosedStays]_vars

C7_Witness ==
    /\ Returned("Close")
    /\ last.wasClosed
    /\ last.err = ErrClosed
    /\ releases[last.h] = 1

\* C8: the descriptors open in the process are exactly those owned by
\* returned handles that have not been closed.
C8_NoLeak == openFds = handles \ closedFiles

\* C9: a fixed-width register read that reports success was given the full
\* number of bytes it asked for.
C9_NoPartialValue ==
    (last.op \in ReadOps \ {"ReadRegBytes"} /\ last.err = Nil) =>
        last.got = Len(last.buf)

\* C10: with a single context using the handle, every read of a register
\* operation is served from the register that operation selected.
C10_SingleContextAtomic ==
    (Cardinality(ctxs) = 1 /\ last.op \in ReadOps /\ Issued("read") = 1) =>
        last.sel = <<last.reg>>

\* with two contexts, another write has moved the register pointer between
\* the select and the read
C10_Witness ==
    /\ Cardinality(ctxs) = 2
    /\ Succeeded("ReadRegU8")
    /\ last.sel # <<>>
    /\ last.sel # <<last.reg>>

====
